---------------------------- MODULE Spec2Model ----------------------------
(***************************************************************************)
(* Request router of simple_server.py: SolanaHandler.do_GET, handle_api    *)
(* and the serve_forever loop of main().                                   *)
(*                                                                         *)
(* Strings of the program are sequences of one-character strings, so that  *)
(* startswith, endswith, == and the URL split are computed on characters.  *)
(* Request targets are origin-form ("/..."), sent as HTTP/1.x GET.         *)
(***************************************************************************)
EXTENDS Naturals, Sequences, FiniteSets

(***************************************************************************)
(* Bounds of the model.                                                    *)
(***************************************************************************)
\* connections that may wait in the listen backlog of the TCPServer
MaxPending == 1

(***************************************************************************)
(* String literals of the source.                                          *)
(***************************************************************************)
ApiPrefix == <<"/", "a", "p", "i", "/">>
RootPath == <<"/">>
IndexPath == <<"/", "i", "n", "d", "e", "x", ".", "h", "t", "m", "l">>
DotIndex == <<".", "/", "i", "n", "d", "e", "x", ".", "h", "t", "m", "l">>
ApiHealth == <<"/", "a", "p", "i", "/", "h", "e", "a", "l", "t", "h">>
ApiSolanaStatus == <<"/", "a", "p", "i", "/", "s", "o", "l", "a", "n", "a", "/", "s", "t", "a", "t", "u", "s">>
ApiAgents == <<"/", "a", "p", "i", "/", "a", "g", "e", "n", "t", "s">>
ExtHtml == <<".", "h", "t", "m", "l">>
ExtCss == <<".", "c", "s", "s">>
ExtJs == <<".", "j", "s">>
ExtJson == <<".", "j", "s", "o", "n">>
ExtJpg == <<".", "j", "p", "g">>
ExtJpeg == <<".", "j", "p", "e", "g">>
ExtPng == <<".", "p", "n", "g">>

HealthJson == "{\"status\": \"ok\", \"message\": \"Solana Trading Platform server is running\"}"
StatusJson == "{\"status\": \"operational\", \"customRpc\": <env>, \"apiKey\": true, \"network\": \"mainnet-beta\", \"timestamp\": <utc>}"
AgentsJson == "[{\"id\": \"hyperion-1\", ...}, {\"id\": \"quantum-omega-1\", ...}]"
NotFoundJson == "{\"error\": \"API endpoint not found\"}"
NotFoundBody == "404 Not Found"

(***************************************************************************)
(* The request targets the clients of the model send.                      *)
(***************************************************************************)
Targets == {
    <<"/">>,
    <<"/", "i", "n", "d", "e", "x", ".", "h", "t", "m", "l">>,
    <<"/", "a", ".", "j", "s", "?", "v", "=", "1">>,
    <<"/", "a", ".", "j", "s", ";", "p">>,
    <<"/", "a", ".", "c", "s", "s">>,
    <<"/", "a", ".", "j", "s", "o", "n">>,
    <<"/", "a", ".", "j", "p", "g">>,
    <<"/", "a", ".", "j", "p", "e", "g">>,
    <<"/", "a", ".", "p", "n", "g">>,
    <<"/", "a", ".", "P", "N", "G">>,
    <<"/", "a", ".", "t", "x", "t">>,
    <<"/", "d">>,
    <<"/", "a", ".", "t", "x", "t", "/", "x">>,
    <<"/", "i", "n", "d", "e", "x", ".", "h", "t", "m", "l", "/", "x">>,
    <<"/", "n", "f">>,
    <<"/", ".", ".", "/", "s">>,
    <<"/", "a", "p", "i">>,
    <<"/", "a", "p", "i", "/", "h", "e", "a", "l", "t", "h">>,
    <<"/", "a", "p", "i", "/", "h", "e", "a", "l", "t", "h", "?", "x">>,
    <<"/", "a", "p", "i", "/", "h", "e", "a", "l", "t", "h", ";", "x">>,
    <<"/", "a", "p", "i", "/", "s", "o", "l", "a", "n", "a", "/", "s", "t", "a", "t", "u", "s">>,
    <<"/", "a", "p", "i", "/", "a", "g", "e", "n", "t", "s">>,
    <<"/", "a", "p", "i", "/">>,
    <<"/", "a", "p", "i", "/", "h", "e", "a", "l", "t", "h", "/">>,
    <<"/", "a", "p", "i", "/", "n", "o", "p", "e">> }

(***************************************************************************)
(* Bind(v, F) is F(v) with v evaluated once and passed by value, as Python *)
(* passes arguments and binds local names.                                 *)
(***************************************************************************)
Bind(v, F(_)) == CHOOSE r \in {F(x) : x \in {v}} : TRUE

(***************************************************************************)
(* str operations used by the handler.                                     *)
(***************************************************************************)
startswith(s, p) == Len(s) >= Len(p) /\ SubSeq(s, 1, Len(p)) = p

endswith(s, p) == Len(s) >= Len(p) /\ SubSeq(s, Len(s) - Len(p) + 1, Len(s)) = p

\* s.find(c, from): the least index >= from holding c, 0 when there is none
find(s, c, from) ==
    Bind({i \in from..Len(s) : s[i] = c},
         LAMBDA hits : IF hits = {} THEN 0 ELSE CHOOSE i \in hits : \A j \in hits : i <= j)

\* s.rfind(c): the greatest index holding c, 0 when there is none
rfind(s, c) ==
    Bind({i \in 1..Len(s) : s[i] = c},
         LAMBDA hits : IF hits = {} THEN 0 ELSE CHOOSE i \in hits : \A j \in hits : i >= j)

\* s[:i-1] for a 1-based hit i, s itself when i = 0
Before(s, i) == IF i = 0 THEN s ELSE SubSeq(s, 1, i - 1)

(***************************************************************************)
(* urlparse(self.path).path for an origin-form target: the fragment is cut *)
(* at the first "#", the query at the first "?", and the parameters at the *)
(* first ";" of the last path segment.                                     *)
(***************************************************************************)
urlparse_path(target) ==
    Bind(Before(target, find(target, "#", 1)), LAMBDA noFragment :
    Bind(Before(noFragment, find(noFragment, "?", 1)), LAMBDA noQuery :
    Bind(rfind(noQuery, "/"), LAMBDA lastSlash :
         Before(noQuery, find(noQuery, ";", IF lastSlash = 0 THEN 1 ELSE lastSlash)))))

(***************************************************************************)
(* State.                                                                  *)
(*   fs          what the directory the server runs in holds (read-only    *)
(*               input of the server, fixed when the process starts)       *)
(*   backlog     targets of the connections waiting to be accepted         *)
(*   server      "serving" while serve_forever runs, "stopped" after an    *)
(*               exception has left it                                     *)
(*   openFiles   file objects opened by the handlers and not yet closed    *)
(*   last        the request handled last and what its handler did         *)
(***************************************************************************)
VARIABLES fs, backlog, server, openFiles, last

vars == <<fs, backlog, server, openFiles, last>>

(***************************************************************************)
(* The filesystem open() sees.  The entries of the served root:            *)
(*   index.html       absent, a readable file, an unreadable file or a     *)
(*                    directory (fs.index)                                 *)
(*   a.js             absent, a readable file or an unreadable file        *)
(*                    (fs.ajs)                                             *)
(*   a.css a.json a.jpg a.jpeg a.png a.PNG a.txt   readable files          *)
(*   d                an empty directory                                   *)
(*   api/nope         a readable file                                      *)
(* and, beside the served root, the readable file ../s.                    *)
(* A location is [up, down]: up parent steps above the served root, then   *)
(* the components of down.                                                 *)
(***************************************************************************)
N_index == <<"i", "n", "d", "e", "x", ".", "h", "t", "m", "l">>
N_ajs == <<"a", ".", "j", "s">>
N_acss == <<"a", ".", "c", "s", "s">>
N_ajson == <<"a", ".", "j", "s", "o", "n">>
N_ajpg == <<"a", ".", "j", "p", "g">>
N_ajpeg == <<"a", ".", "j", "p", "e", "g">>
N_apng == <<"a", ".", "p", "n", "g">>
N_aPNG == <<"a", ".", "P", "N", "G">>
N_atxt == <<"a", ".", "t", "x", "t">>
N_d == <<"d">>
N_api == <<"a", "p", "i">>
N_nope == <<"n", "o", "p", "e">>
N_s == <<"s">>

IndexKinds == {"absent", "file", "unreadable", "dir"}
AjsKinds == {"absent", "file", "unreadable"}
FsStates == [index : IndexKinds, ajs : AjsKinds]

FixedFiles == {N_acss, N_ajson, N_ajpg, N_ajpeg, N_apng, N_aPNG, N_atxt}

Loc(up, down) == [up |-> up, down |-> down]
NoLoc == Loc(0, <<<<"?">>>>)
IndexLoc == Loc(0, <<N_index>>)

KindOf(f, loc) ==
    IF loc.down = <<>> THEN "dir"
    ELSE IF loc.up = 0 THEN
        IF loc.down = <<N_index>> THEN f.index
        ELSE IF loc.down = <<N_ajs>> THEN f.ajs
        ELSE IF Len(loc.down) = 1 /\ loc.down[1] \in FixedFiles THEN "file"
        ELSE IF loc.down \in {<<N_d>>, <<N_api>>} THEN "dir"
        ELSE IF loc.down = <<N_api, N_nope>> THEN "file"
        ELSE "absent"
    ELSE IF loc.up = 1 /\ loc.down = <<N_s>> THEN "file"
    ELSE "absent"

\* the bytes a readable file holds, one distinct value per file
FileBytes(loc) ==
    IF loc = IndexLoc THEN "<bytes of index.html>"
    ELSE IF loc = Loc(0, <<N_ajs>>) THEN "<bytes of a.js>"
    ELSE IF loc = Loc(0, <<N_acss>>) THEN "<bytes of a.css>"
    ELSE IF loc = Loc(0, <<N_ajson>>) THEN "<bytes of a.json>"
    ELSE IF loc = Loc(0, <<N_ajpg>>) THEN "<bytes of a.jpg>"
    ELSE IF loc = Loc(0, <<N_ajpeg>>) THEN "<bytes of a.jpeg>"
    ELSE IF loc = Loc(0, <<N_apng>>) THEN "<bytes of a.png>"
    ELSE IF loc = Loc(0, <<N_aPNG>>) THEN "<bytes of a.PNG>"
    ELSE IF loc = Loc(0, <<N_atxt>>) THEN "<bytes of a.txt>"
    ELSE IF loc = Loc(0, <<N_api, N_nope>>) THEN "<bytes of api/nope>"
    ELSE IF loc = Loc(1, <<N_s>>) THEN "<bytes of ../s>"
    ELSE "<no bytes>"

\* the components of a file name, split at "/"
RECURSIVE Components(_)
Components(name) ==
    Bind(find(name, "/", 1), LAMBDA i :
         IF i = 0 THEN <<name>>
         ELSE <<SubSeq(name, 1, i - 1)>>
              \o Bind(SubSeq(name, i + 1, Len(name)), LAMBDA rest : Components(rest)))

\* what open() finds at the end of the walk
AtEnd(loc, kind) ==
    [result |-> CASE kind = "file" -> "ok"
                  [] kind = "unreadable" -> "PermissionError"
                  [] kind = "dir" -> "IsADirectoryError"
                  [] OTHER -> "FileNotFoundError",
     loc |-> IF kind = "absent" THEN NoLoc ELSE loc]

\* one component further from the directory loc
StepTo(loc, c) ==
    IF c = <<>> \/ c = <<".">> THEN loc
    ELSE IF c = <<".", ".">> THEN
        IF loc.down = <<>> THEN Loc(loc.up + 1, <<>>)
        ELSE Loc(loc.up, SubSeq(loc.down, 1, Len(loc.down) - 1))
    ELSE Loc(loc.up, Append(loc.down, c))

\* path resolution of the kernel, from the working directory of the server
RECURSIVE Walk(_, _, _)
Walk(f, loc, comps) ==
    Bind(KindOf(f, loc), LAMBDA kind :
         IF comps = <<>> THEN AtEnd(loc, kind)
         ELSE IF kind = "absent" THEN [result |-> "FileNotFoundError", loc |-> NoLoc]
         ELSE IF kind # "dir" THEN [result |-> "NotADirectoryError", loc |-> NoLoc]
         ELSE Bind(StepTo(loc, Head(comps)), LAMBDA next :
              Bind(Tail(comps), LAMBDA rest : Walk(f, next, rest))))

\* open(name, 'rb'): "ok" and the file reached, or the OSError raised
OpenOutcome(f, name) == Bind(Components(name), LAMBDA comps : Walk(f, Loc(0, <<>>), comps))

(***************************************************************************)
(* One run of a handler.  h is the handler's progress:                     *)
(*   conn     "up", or "down" when the client has gone and a write to the  *)
(*            socket raises BrokenPipeError                                *)
(*   buf      the headers buffer of BaseHTTPRequestHandler                 *)
(*   wire     what has been written to the socket, in order                *)
(*   opens    the open() calls made: name, result, file reached            *)
(*   handles  file objects open now                                        *)
(*   exc      "none", or the exception that is propagating                 *)
(* Every step is skipped while an exception propagates.                    *)
(***************************************************************************)
Item(kind, text) == [kind |-> kind, text |-> text]

NewHandler(conn) ==
    [conn |-> conn, buf |-> <<>>, wire |-> <<>>, opens |-> <<>>, handles |-> 0, exc |-> "none"]

\* self.send_header(keyword, value): one header line appended to the buffer
send_header(handler, keyword, value) ==
    Bind(handler, LAMBDA h :
    IF h.exc # "none" THEN h
    ELSE [h EXCEPT !.buf = Append(@, Item("header", keyword \o ": " \o value))])

\* self.send_response(code): the status line, then the Server and Date
\* headers, appended to the buffer
send_response(handler, code) ==
    Bind(handler, LAMBDA h :
    IF h.exc # "none" THEN h
    ELSE [h EXCEPT !.buf = @ \o <<Item("status", code), Item("header", "Server: <version>"),
                                   Item("header", "Date: <now>")>>])

\* self.end_headers(): the blank line is appended and the buffer is written
\* to the socket
end_headers(handler) ==
    Bind(handler, LAMBDA h :
    IF h.exc # "none" THEN h
    ELSE IF h.conn = "down" THEN [h EXCEPT !.exc = "BrokenPipeError"]
    ELSE [h EXCEPT !.wire = @ \o h.buf \o <<Item("end", "")>>, !.buf = <<>>])

\* self.wfile.write(data)
wfile_write(handler, data) ==
    Bind(handler, LAMBDA h :
    IF h.exc # "none" THEN h
    ELSE IF h.conn = "down" THEN [h EXCEPT !.exc = "BrokenPipeError"]
    ELSE [h EXCEPT !.wire = Append(@, Item("body", data))])

\* open(name, 'rb') at the head of a with statement: the file object is
\* bound, or the OSError of the open is raised
open_rb(handler, name) ==
    Bind(handler, LAMBDA h :
    IF h.exc # "none" THEN h
    ELSE Bind(OpenOutcome(fs, name), LAMBDA o :
         Bind([h EXCEPT !.opens = Append(@, [name |-> name, result |-> o.result, loc |-> o.loc])],
              LAMBDA tried : IF o.result = "ok" THEN [tried EXCEPT !.handles = @ + 1]
                             ELSE [tried EXCEPT !.exc = o.result])))

\* the file the handler has opened last
file_of(h) == h.opens[Len(h.opens)].loc

\* leaving the with block: the file object is closed, whether the block
\* ended or raised
with_exit_on_success_only(handler) ==
    Bind(handler, LAMBDA h : IF h.exc = "none" THEN [h EXCEPT !.handles = @ - 1] ELSE h)

with_exit(h) == [h EXCEPT !.handles = @ - 1]

(***************************************************************************)
(* SolanaHandler.handle_api                                                *)
(***************************************************************************)
ApiReply(h, code, body) == wfile_write(end_headers(send_response(h, code)), body)

handle_api_prefix(h, path) ==
    Bind(send_header(h, "Content-type", "application/json"), LAMBDA h1 :
         IF startswith(path, ApiHealth) THEN ApiReply(h1, "200", HealthJson)
         ELSE IF startswith(path, ApiSolanaStatus) THEN ApiReply(h1, "200", StatusJson)
         ELSE IF startswith(path, ApiAgents) THEN ApiReply(h1, "200", AgentsJson)
         ELSE ApiReply(h1, "404", NotFoundJson))

handle_api(h, path) ==
    Bind(send_header(h, "Content-type", "application/json"), LAMBDA h1 :
         IF path = ApiHealth THEN ApiReply(h1, "200", HealthJson)
         ELSE IF path = ApiSolanaStatus THEN ApiReply(h1, "200", StatusJson)
         ELSE IF path = ApiAgents THEN ApiReply(h1, "200", AgentsJson)
         ELSE ApiReply(h1, "404", NotFoundJson))

(***************************************************************************)
(* SolanaHandler.do_GET                                                    *)
(***************************************************************************)
\* the Content-type chosen in the elif chain on the suffix of path
content_type_no_jpeg(path) ==
    IF endswith(path, ExtHtml) THEN "text/html"
    ELSE IF endswith(path, ExtCss) THEN "text/css"
    ELSE IF endswith(path, ExtJs) THEN "text/javascript"
    ELSE IF endswith(path, ExtJson) THEN "application/json"
    ELSE IF endswith(path, ExtJpg) THEN "image/jpeg"
    ELSE IF endswith(path, ExtPng) THEN "image/png"
    ELSE "application/octet-stream"

content_type(path) ==
    IF endswith(path, ExtHtml) THEN "text/html"
    ELSE IF endswith(path, ExtCss) THEN "text/css"
    ELSE IF endswith(path, ExtJs) THEN "text/javascript"
    ELSE IF endswith(path, ExtJson) THEN "application/json"
    ELSE IF endswith(path, ExtJpg) \/ endswith(path, ExtJpeg) THEN "image/jpeg"
    ELSE IF endswith(path, ExtPng) THEN "image/png"
    ELSE "application/octet-stream"

\* if path == '/': path = '/index.html'
root_to_index_off(path) == path

root_to_index(path) == IF path = RootPath THEN IndexPath ELSE path

\* the body of the first with block
serve_file(h, file, path) ==
    wfile_write(end_headers(send_header(send_response(h, "200"), "Content-type", content_type(path))),
                FileBytes(file))

\* the body of the with block of the fallback
serve_index(h, file) ==
    wfile_write(end_headers(send_header(send_response(h, "200"), "Content-type", "text/html")),
                FileBytes(file))

\* the inner except FileNotFoundError clause
send_404(h) ==
    wfile_write(end_headers(send_header(send_response(h, "404"), "Content-type", "text/html")),
                NotFoundBody)

\* the outer except FileNotFoundError clause
fallback(h) ==
    Bind(open_rb(h, DotIndex), LAMBDA opened :
    Bind(IF opened.exc = "none" THEN with_exit(serve_index(opened, file_of(opened))) ELSE opened,
         LAMBDA tried :
             IF tried.exc = "FileNotFoundError" THEN send_404([tried EXCEPT !.exc = "none"])
             ELSE tried))

serve_static(h, path) ==
    Bind(open_rb(h, <<".">> \o path), LAMBDA opened :
    Bind(IF opened.exc = "none" THEN with_exit(serve_file(opened, file_of(opened), path))
         ELSE opened,
         LAMBDA tried :
             IF tried.exc = "FileNotFoundError" THEN fallback([tried EXCEPT !.exc = "none"])
             ELSE tried))

do_GET(target, conn) ==
    Bind(urlparse_path(target), LAMBDA parsed :
         IF startswith(parsed, ApiPrefix) THEN handle_api(NewHandler(conn), parsed)
         ELSE Bind(root_to_index(parsed), LAMBDA path : serve_static(NewHandler(conn), path)))

(***************************************************************************)
(* main(): socketserver.TCPServer(...).serve_forever().  The server takes  *)
(* one connection at a time from the backlog and runs the handler to its   *)
(* end.  An Exception that leaves the handler is caught by the server      *)
(* (handle_error, shutdown_request) and the loop goes on.                  *)
(***************************************************************************)
Conns == {"up", "down"}

NoRequest ==
    [served |-> FALSE, target |-> <<>>, conn |-> "up", wire |-> <<>>, opens |-> <<>>, exc |-> "none"]

Init ==
    /\ fs \in FsStates
    /\ backlog = <<>>
    /\ server = "serving"
    /\ openFiles = 0
    /\ last = NoRequest

\* a client connects and sends GET target
Connect(target) ==
    /\ Len(backlog) < MaxPending
    /\ backlog' = Append(backlog, target)
    /\ UNCHANGED <<fs, server, openFiles, last>>

\* the state of the loop after a handler has ended with exception exc
after_handler_stops_on_error(exc) == IF exc = "none" THEN "serving" ELSE "stopped"

after_handler(exc) == "serving"

\* one turn of serve_forever
serve_forever ==
    /\ server = "serving"
    /\ backlog # <<>>
    /\ \E conn \in Conns : \E h \in {do_GET(Head(backlog), conn)} :
          /\ last' = [served |-> TRUE, target |-> Head(backlog), conn |-> conn,
                      wire |-> h.wire, opens |-> h.opens, exc |-> h.exc]
          /\ openFiles' = openFiles + h.handles
          /\ server' = after_handler(h.exc)
    /\ backlog' = Tail(backlog)
    /\ UNCHANGED fs

Next ==
    \/ \E target \in Targets : Connect(target)
    \/ serve_forever

Spec == Init /\ [][Next]_vars

\* the loop is never starved: a waiting connection is accepted and handled
FairSpec == Spec /\ WF_vars(serve_forever)

(***************************************************************************)
(* What a client that stays connected receives for the last request.       *)
(***************************************************************************)
Answered == last.served /\ last.conn = "up"

LastPath == urlparse_path(last.target)

IsApi == startswith(LastPath, ApiPrefix)

Texts(kind) ==
    LET RECURSIVE Pick(_)
        Pick(w) == IF w = <<>> THEN <<>>
                   ELSE IF Head(w).kind = kind THEN <<Head(w).text>> \o Pick(Tail(w))
                   ELSE Pick(Tail(w))
    IN  Pick(last.wire)

Statuses == Texts("status")

Bodies == Texts("body")

ContentTypes ==
    LET RECURSIVE Pick(_)
        Pick(w) == IF w = <<>> THEN <<>>
                   ELSE IF Head(w).kind = "header" /\ Head(w).text \in
                              {"Content-type: text/html", "Content-type: text/css",
                               "Content-type: text/javascript", "Content-type: application/json",
                               "Content-type: image/jpeg", "Content-type: image/png",
                               "Content-type: application/octet-stream"}
                        THEN <<Head(w).text>> \o Pick(Tail(w))
                   ELSE Pick(Tail(w))
    IN  Pick(last.wire)

BlockEnds == Texts("end")

\* the response is exactly: status, Content-type, body
Response(status, ctype, body) ==
    /\ Statuses = <<status>>
    /\ ContentTypes = <<"Content-type: " \o ctype>>
    /\ BlockEnds = <<"">>
    /\ Bodies = <<body>>

\* what open() finds at <root><p>
AtRoot(p) == OpenOutcome(fs, <<".">> \o p)

\* a file is at <root><p> and can be read
FileAt(p) == AtRoot(p).result = "ok"

\* nothing that is a file is at <root><p>: the name is absent, names a
\* directory, or descends through a regular file
NoFileAt(p) == AtRoot(p).result \in {"FileNotFoundError", "IsADirectoryError", "NotADirectoryError"}

\* the extension table of section 4.1.1
ExtensionTable ==
    {<<ExtHtml, "text/html">>, <<ExtCss, "text/css">>, <<ExtJs, "text/javascript">>,
     <<ExtJson, "application/json">>, <<ExtJpg, "image/jpeg">>, <<ExtJpeg, "image/jpeg">>,
     <<ExtPng, "image/png">>}

TableType(p) ==
    IF \E e \in ExtensionTable : endswith(p, e[1])
    THEN (CHOOSE e \in ExtensionTable : endswith(p, e[1]))[2]
    ELSE "application/octet-stream"

(***************************************************************************)
(* C1: every GET request, whatever opening the requested file and the      *)
(* fallback index.html yields, is answered by exactly one response: one    *)
(* status line, one header block, one body.                                *)
(* Violated: an OSError other than FileNotFoundError leaves do_GET.        *)
(***************************************************************************)
C1_ExactlyOneResponse ==
    Answered => /\ Len(Statuses) = 1
                /\ Len(BlockEnds) = 1
                /\ Len(Bodies) = 1

(***************************************************************************)
(* C2: for a path p not under /api/, if a file is at <root><p> the         *)
(* response is 200, its body is the bytes of that file and its             *)
(* Content-Type is the one the extension table gives for the suffix of p,  *)
(* compared case-sensitively.                                              *)
(***************************************************************************)
C2_FileServedWithTableType ==
    (Answered /\ ~IsApi /\ FileAt(LastPath))
        => Response("200", TableType(LastPath), FileBytes(AtRoot(LastPath).loc))

C2_Witness ==
    /\ Answered
    /\ LastPath = <<"/", "a", ".", "j", "p", "e", "g">>
    /\ Response("200", "image/jpeg", "<bytes of a.jpeg>")

(***************************************************************************)
(* C3: for a path p not under /api/ with no file at <root><p> (p absent, a *)
(* directory, or descending through a regular file) while index.html is    *)
(* there, the response is 200, text/html, with the bytes of index.html.    *)
(* Violated for a directory and for a path through a regular file.         *)
(***************************************************************************)
C3_FallbackForEveryMissingPath ==
    (Answered /\ ~IsApi /\ NoFileAt(LastPath) /\ fs.index = "file")
        => Response("200", "text/html", FileBytes(IndexLoc))

(***************************************************************************)
(* C4: for a path p not under /api/, if neither <root><p> nor index.html   *)
(* is there the response is 404, text/html, "404 Not Found"; and a 404     *)
(* answers a path not under /api/ only then.                               *)
(* Violated for a directory and for a path through a regular file.         *)
(***************************************************************************)
C4_NotFoundIffNeitherExists ==
    (Answered /\ ~IsApi)
        => /\ (NoFileAt(LastPath) /\ fs.index = "absent")
                 => Response("404", "text/html", NotFoundBody)
           /\ ("404" \in {Statuses[i] : i \in 1..Len(Statuses)})
                 => (NoFileAt(LastPath) /\ fs.index = "absent")

C6_RootEquivalentToIndex ==
    (last.served /\ LastPath = RootPath)
        => LET other == do_GET(IndexPath, last.conn)
           IN  /\ last.wire = other.wire
               /\ last.exc = other.exc
               /\ last.opens = other.opens

C6_Witness ==
    /\ Answered
    /\ last.target = RootPath
    /\ fs.index = "file"
    /\ Response("200", "text/html", FileBytes(IndexLoc))

C8_OpensStayInsideRoot ==
    \A i \in 1..Len(last.opens) :
        last.opens[i].result = "ok" => last.opens[i].loc.up = 0

(***************************************************************************)
(* C9: every file opened while a request is handled is closed when the     *)
(* handling ends, on every exit path; after any sequence of requests no    *)
(* file is open.                                                           *)
(***************************************************************************)
C9_NoOpenFileAfterRequest == openFiles = 0

C9_Witness ==
    /\ last.served
    /\ last.exc = "BrokenPipeError"
    /\ \E i \in 1..Len(last.opens) : last.opens[i].result = "ok"
    /\ openFiles = 0

(***************************************************************************)
(* C10: every response to a path under /api/ is written in HTTP order: the *)
(* status line first, the Content-Type: application/json header after it   *)
(* inside the header block, the end of the block, then the JSON body.      *)
(* Violated: handle_api calls send_header before send_response.            *)
(***************************************************************************)
C10_ApiStatusLineFirst ==
    (Answered /\ IsApi)
        => /\ last.wire # <<>>
           /\ last.wire[1].kind = "status"
           /\ \E i \in 2..Len(last.wire) :
                 /\ last.wire[i] = Item("header", "Content-type: application/json")
                 /\ \A j \in 1..i : last.wire[j].kind \in {"status", "header"}
           /\ last.wire[Len(last.wire) - 1].kind = "end"
           /\ last.wire[Len(last.wire)].kind = "body"

=============================================================================
